---------------------------- MODULE Spec2Model ----------------------------
(***************************************************************************)
(* Model of the viralengine agency scripts:                                *)
(*   - the capabilities (tools) of viral_video_agency.py and               *)
(*     viral_video_agency_nodejs.py, at the boundary of their run();       *)
(*   - the agency chart (roster and dispatch edges) of both agencies and   *)
(*     the life of a Task Request submitted with get_completion;           *)
(*   - the start-up of the three driver scripts.                           *)
(* Four specifications share the variables: FileSpec (the file            *)
(* capability), CapSpec (the other capabilities), Spec (the agency) and    *)
(* DriverSpec.  Each leaves the other parts' variables alone.              *)
(***************************************************************************)
EXTENDS Integers, Sequences, FiniteSets, TLC

VARIABLES
    agency,     \* "py" (viral_video_agency.py) | "node" (viral_video_agency_nodejs.py)
    platform,   \* "posix" | "windows": decides os.linesep of text-mode files
    subExists,  \* whether the directory "sub" exists under the project root
    gfile,      \* what the file "sub/g" holds on disk, or Absent
    pkg,        \* package.json in the working directory: "absent" | "valid" | "invalid"
    call,       \* the capability invocation that ran last
    result,     \* what its run() produced
    cmds,       \* the commands run() handed to subprocess.run during that call
    prev,       \* how the call before it relates to it: "create" (a create on the
                \* same path), "write" (a write with the same path and content)
                \* or "-"
    stack,      \* the Task Request being served: one frame per role at work, the
                \* root's first; <<>> when no request is outstanding
    outcomes,   \* the terminal states of the requests served so far, in order
    fed,        \* the kind of the capability result last fed back to a role
    alive,      \* FALSE once a fault that left run() has unwound the process
    collected,  \* whether the root has had a delegated sub-request return to it
                \* in the request submitted last
    driver,     \* the script started: run_agency, start_building, start_building_nodejs
    environ,    \* os.environ: each secret "unset", "empty" or "set"
    dotenv,     \* the secrets the .env file gives a value
    libRejects, \* whether agency_swarm's set_openai_key raises on a missing key
    dirExists,  \* whether the project directory the scripts chdir to exists
    pc,         \* where the driver is: "start", "main", "menu", "crashed", "exited"
    warnings,   \* the missing-key warnings printed
    errors,     \* the missing-key error messages printed
    mode,       \* what the choice at the menu started: "build", "full", "status",
                \* "task", "interactive", "ui", "invalid"; "-" before the choice
    plan,       \* the prompts the chosen mode submits, in its listed order
    step,       \* the step of the plan the driver has reached; 0 before the first
    sent,       \* the prompts handed to get_completion so far, in order
    reply,      \* what get_completion returned last
    shown,      \* the lines printed for the step or command at hand
    banner,     \* whether the BUILD COMPLETE banner has been printed
    reported,   \* how a fault of get_completion was shown to the user
    reads,      \* the commands read in interactive mode
    typed       \* the line input() returned last, at the menu or in interactive mode

toolVars == <<agency, platform, subExists, gfile, pkg, call, result, cmds, prev>>
agencyVars == <<stack, outcomes, fed, alive, collected>>
driverVars == <<driver, environ, dotenv, libRejects, dirExists, pc, warnings, errors>>
runVars == <<mode, plan, step, sent, reply, shown, banner, reported, reads, typed>>
vars == <<toolVars, agencyVars, driverVars, runVars>>

-----------------------------------------------------------------------------
(* Bounds *)

\* longest content handed to the file capability; append is not called on a
\* file that would grow beyond it
MaxLen == 2
\* Task Requests a driver submits in one run
MaxRequests == 2

-----------------------------------------------------------------------------
(* Texts.  A text is a sequence of characters; three characters stand for  *)
(* all: an ordinary one, the line feed and the carriage return.            *)

Alphabet == {"a", "LF", "CR"}

Texts == UNION { [1..k -> Alphabet] : k \in 0..MaxLen }

\* Python's None for an Optional[str] field
None == <<"None">>

OptTexts == Texts \cup {None}

\* A value handed back by run(): a text (kind "text": marker tag and body), the
\* value None (kind "none"), or no value at all because a fault left run()
\* (kind "raise").  The text is the marker followed by the body.
Text(tag, body) == [kind |-> "text", tag |-> tag, body |-> body]
Raw(body) == Text("", body)
NoneResult == [kind |-> "none", tag |-> "None", body |-> <<>>]
Raised(e) == [kind |-> "raise", tag |-> e, body |-> <<>>]
NoResult == [kind |-> "idle", tag |-> "-", body |-> <<>>]

ErrorTags == {"Error: ", "Error executing command: ", "Error executing code: ",
              "Unknown action: "}

IsErrorText(r) == r.kind = "text" /\ r.tag \in ErrorTags

-----------------------------------------------------------------------------
(* Text-mode files: open(path, 'w' | 'a' | 'r') without newline=           *)

LineSep(p) == IF p = "windows" THEN <<"CR", "LF">> ELSE <<"LF">>

\* f.write(s) on a text-mode file: every "\n" is written as os.linesep
RECURSIVE TextWrite(_, _)
TextWrite(s, p) ==
    IF s = <<>> THEN <<>>
    ELSE (IF Head(s) = "LF" THEN LineSep(p) ELSE <<Head(s)>>) \o TextWrite(Tail(s), p)

\* f.read() on a text-mode file: universal newlines, "\r\n" and "\r" read as "\n"
RECURSIVE TextRead(_)
TextRead(d) ==
    IF d = <<>> THEN <<>>
    ELSE IF Head(d) = "CR"
         THEN IF Len(d) >= 2 /\ d[2] = "LF"
              THEN <<"LF">> \o TextRead(Tail(Tail(d)))
              ELSE <<"LF">> \o TextRead(Tail(d))
         ELSE <<Head(d)>> \o TextRead(Tail(d))


-----------------------------------------------------------------------------
(* The file capability: FileOperationTool.run and TypeScriptFileTool.run   *)

\* a file that does not exist
Absent == <<"Absent">>

\* file_path values: "" joins to the project root itself, a directory that
\* exists; "sub/g" names a file in the directory "sub", which may not exist yet
DirPath == ""
FilePath == "sub/g"
Paths == {DirPath, FilePath}

FileOps == {"create", "read", "write", "append"}
\* an operation value outside the four the field's description lists
OtherOp == "delete"
Operations == FileOps \cup {OtherOp}

\* What run() returns and what it leaves on disk: [res, sub, g]
FileOutcome(r, sub, g) == [res |-> r, sub |-> sub, g |-> g]

\* create opening the file with 'a' instead of 'w': what it held stays
FileCreate_AppendMode(path, content, sub, g, p) ==
    IF path = DirPath
    THEN FileOutcome(Text("Error: ", <<"IsADirectoryError">>), sub, g)
    ELSE FileOutcome(Text("Created file: ", <<path>>), TRUE,
                     (IF ~sub \/ g = Absent THEN <<>> ELSE g)
                        \o TextWrite(IF content = None THEN <<>> ELSE content, p))

\* operation == "create": makedirs(dirname), open 'w', write(content or "")
FileCreate(path, content, sub, g, p) ==
    IF path = DirPath
    THEN FileOutcome(Text("Error: ", <<"IsADirectoryError">>), sub, g)
    ELSE FileOutcome(Text("Created file: ", <<path>>), TRUE,
                     TextWrite(IF content = None THEN <<>> ELSE content, p))

\* operation == "read": open 'r', read()
FileRead(path, sub, g) ==
    IF path = DirPath
    THEN FileOutcome(Text("Error: ", <<"IsADirectoryError">>), sub, g)
    ELSE IF ~sub \/ g = Absent
    THEN FileOutcome(Text("Error: ", <<"FileNotFoundError">>), sub, g)
    ELSE FileOutcome(Raw(TextRead(g)), sub, g)

\* write opening the file with 'a' instead of 'w'
FileWrite_AppendMode(path, content, sub, g, p) ==
    IF path = DirPath
    THEN FileOutcome(Text("Error: ", <<"IsADirectoryError">>), sub, g)
    ELSE IF ~sub
    THEN FileOutcome(Text("Error: ", <<"FileNotFoundError">>), sub, g)
    ELSE IF content = None
    THEN FileOutcome(Text("Error: ", <<"TypeError">>), sub, IF g = Absent THEN <<>> ELSE g)
    ELSE FileOutcome(Text("Updated file: ", <<path>>), sub,
                     (IF g = Absent THEN <<>> ELSE g) \o TextWrite(content, p))

\* operation == "write": open 'w' (which truncates), write(content)
FileWrite(path, content, sub, g, p) ==
    IF path = DirPath
    THEN FileOutcome(Text("Error: ", <<"IsADirectoryError">>), sub, g)
    ELSE IF ~sub
    THEN FileOutcome(Text("Error: ", <<"FileNotFoundError">>), sub, g)
    ELSE IF content = None
    THEN FileOutcome(Text("Error: ", <<"TypeError">>), sub, <<>>)
    ELSE FileOutcome(Text("Updated file: ", <<path>>), sub, TextWrite(content, p))

\* operation == "append": open 'a' (which creates the file), write(content)
FileAppend(path, content, sub, g, p) ==
    IF path = DirPath
    THEN FileOutcome(Text("Error: ", <<"IsADirectoryError">>), sub, g)
    ELSE IF ~sub
    THEN FileOutcome(Text("Error: ", <<"FileNotFoundError">>), sub, g)
    ELSE LET old == IF g = Absent THEN <<>> ELSE g
         IN  IF content = None
             THEN FileOutcome(Text("Error: ", <<"TypeError">>), sub, old)
             ELSE FileOutcome(Text("Appended to file: ", <<path>>), sub,
                              old \o TextWrite(content, p))

\* FileOperationTool.run: the if/elif chain has no else, so any other
\* operation falls off the end of run() and returns None
FileOperationTool_run(op, path, content, sub, g, p) ==
    CASE op = "create" -> FileCreate(path, content, sub, g, p)
      [] op = "read"   -> FileRead(path, sub, g)
      [] op = "write"  -> FileWrite(path, content, sub, g, p)
      [] op = "append" -> FileAppend(path, content, sub, g, p)
      [] OTHER         -> FileOutcome(NoneResult, sub, g)

\* TypeScriptFileTool.run is the same code under another class name
TypeScriptFileTool_run(op, path, content, sub, g, p) ==
    FileOperationTool_run(op, path, content, sub, g, p)

FileTools == {"FileOperationTool", "TypeScriptFileTool"}

\* each agency module declares its own file capability
FileToolOf(a) == IF a = "node" THEN "TypeScriptFileTool" ELSE "FileOperationTool"

FileToolRun(tool, op, path, content, sub, g, p) ==
    IF tool = "TypeScriptFileTool"
    THEN TypeScriptFileTool_run(op, path, content, sub, g, p)
    ELSE FileOperationTool_run(op, path, content, sub, g, p)

-----------------------------------------------------------------------------
(* subprocess.run(cmd, shell=True, capture_output=True, text=True)          *)

ProcTexts == {<<>>, <<"a">>}
ExitCodes == {0, 1}

\* the process ran to its end: exit code, captured stdout and stderr
Completed == [ran : {TRUE}, rc : ExitCodes, out : ProcTexts, err : ProcTexts]
\* subprocess.run itself raised (the working directory is missing, the output
\* does not decode): an OSError or a ValueError, both subclasses of Exception
LaunchFailed == [ran |-> FALSE, rc |-> 1, out |-> <<>>, err |-> <<>>]
ProcOutcomes == Completed \cup {LaunchFailed}
NoProc == [ran |-> FALSE, rc |-> 0, out |-> <<>>, err |-> <<>>]

\* What run() returns and the commands it ran: [res, cmds]
ToolOutcome(r, c) == [res |-> r, cmds |-> c]

\* result.stdout if result.returncode == 0 else f"Error: {result.stderr}",
\* inside try / except Exception -> f"Error executing command: {e}"
RunAndReport(cmd, proc) ==
    IF ~proc.ran
    THEN ToolOutcome(Text("Error executing command: ", <<"OSError">>), <<cmd>>)
    ELSE IF proc.rc = 0
    THEN ToolOutcome(Raw(proc.out), <<cmd>>)
    ELSE ToolOutcome(Text("Error: ", proc.err), <<cmd>>)

\* working_dir: Optional[str], "." by default
NoneDir == "<None>"
WorkingDirs == {".", NoneDir}
Commands == {"npm test"}

\* run() returning result.stderr without the marker
NodeExecutorTool_run_NoMarker(command, wd, proc) ==
    IF wd = NoneDir
    THEN ToolOutcome(Text("Error executing command: ", <<"TypeError">>), <<>>)
    ELSE IF proc.ran /\ proc.rc # 0
    THEN ToolOutcome(Raw(proc.err), <<<<command>>>>)
    ELSE RunAndReport(<<command>>, proc)

\* NodeExecutorTool.run: os.path.join(root, None) raises TypeError inside the try
NodeExecutorTool_run(command, wd, proc) ==
    IF wd = NoneDir
    THEN ToolOutcome(Text("Error executing command: ", <<"TypeError">>), <<>>)
    ELSE RunAndReport(<<command>>, proc)

SupportedActions == {"show", "set-status", "update-subtask"}
\* "update-note" is the third action the interface description names
Actions == SupportedActions \cup {"update-note"}
TaskIds == {"11.1"}
Statuses == {"None", "done"}
Notes == {"None", "note"}

\* the command line TaskMasterTool.run builds for a supported action
TaskMasterCmd(task_id, action, status, notes) ==
    CASE action = "show"           -> <<"task-master show", task_id>>
      [] action = "set-status"     -> <<"task-master set-status", task_id, status>>
      [] action = "update-subtask" -> <<"task-master update-subtask", task_id, notes>>

\* run() without its final else: an unknown action runs the bare tracker
TaskMasterTool_run_NoElse(task_id, action, status, notes, proc) ==
    IF action \in SupportedActions
    THEN RunAndReport(TaskMasterCmd(task_id, action, status, notes), proc)
    ELSE RunAndReport(<<"task-master", action>>, proc)

\* TaskMasterTool.run (viral_video_agency.py)
TaskMasterTool_run(task_id, action, status, notes, proc) ==
    IF action \in SupportedActions
    THEN RunAndReport(TaskMasterCmd(task_id, action, status, notes), proc)
    ELSE ToolOutcome(Text("Unknown action: ", <<action>>), <<>>)

\* TaskMasterTool.run (viral_video_agency_nodejs.py): the same code
NodeTaskMasterTool_run(task_id, action, status, notes, proc) ==
    TaskMasterTool_run(task_id, action, status, notes, proc)

-----------------------------------------------------------------------------
(* PythonExecutorTool.run: exec(self.code) inside try / except Exception   *)

\* What the code handed to exec does: runs to its end without or with a
\* variable "result", or raises.  SystemExit (sys.exit(), exit()) and
\* KeyboardInterrupt derive from BaseException, not from Exception.
Faults == {"ValueError", "SystemExit", "KeyboardInterrupt"}
CodeBehaviours == {"runs", "sets_result"} \cup Faults
BaseExceptionOnly == {"SystemExit", "KeyboardInterrupt", "GeneratorExit"}

\* what "except Exception" catches
CaughtByExceptException(e) == e \notin BaseExceptionOnly

PythonExecutorTool_run(code) ==
    IF code \in Faults
    THEN IF CaughtByExceptException(code)
         THEN ToolOutcome(Text("Error executing code: ", <<code>>), <<>>)
         ELSE ToolOutcome(Raised(code), <<>>)
    ELSE IF code = "sets_result"
    THEN ToolOutcome(Raw(<<"a">>), <<>>)
    ELSE ToolOutcome(Text("Code executed successfully", <<>>), <<>>)

-----------------------------------------------------------------------------
(* PackageJsonTool.run                                                     *)

PkgActions == {"init", "add-dependency", "add-script", "install"}
PkgOtherAction == "remove"
PkgStates == {"absent", "valid", "invalid"}

\* [res, cmds, pkg]: what run() returns, the commands it ran, package.json after
PkgOutcome(r, c, k) == [res |-> r, cmds |-> c, pkg |-> k]

PackageJsonTool_run(action, proc, k) ==
    CASE action = "init" ->
            PkgOutcome(Text("Initialized package.json", <<>>), <<>>, "valid")
      [] action = "add-dependency" ->
            IF ~proc.ran THEN PkgOutcome(Text("Error: ", <<"OSError">>), <<<<"npm install", "pkg">>>>, k)
            ELSE IF proc.rc = 0 THEN PkgOutcome(Text("Installed ", <<"pkg">>), <<<<"npm install", "pkg">>>>, k)
            ELSE PkgOutcome(Raw(proc.err), <<<<"npm install", "pkg">>>>, k)
      [] action = "add-script" ->
            IF k = "absent" THEN PkgOutcome(Text("Error: ", <<"FileNotFoundError">>), <<>>, k)
            ELSE IF k = "invalid" THEN PkgOutcome(Text("Error: ", <<"JSONDecodeError">>), <<>>, k)
            ELSE PkgOutcome(Text("Added script: ", <<"script">>), <<>>, k)
      [] action = "install" ->
            IF ~proc.ran THEN PkgOutcome(Text("Error: ", <<"OSError">>), <<<<"npm install">>>>, k)
            ELSE IF proc.rc = 0 THEN PkgOutcome(Text("Dependencies installed", <<>>), <<<<"npm install">>>>, k)
            ELSE PkgOutcome(Raw(proc.err), <<<<"npm install">>>>, k)
      [] OTHER -> PkgOutcome(NoneResult, <<>>, k)

-----------------------------------------------------------------------------
(* FileSpec: the roles of an agency invoke its file capability, in any     *)
(* order, on any input                                                     *)

Agencies == {"py", "node"}
Platforms == {"posix", "windows"}

Call(tool, op, path, content, proc) ==
    [tool |-> tool, op |-> op, path |-> path, content |-> content, proc |-> proc]
NoCall == Call("-", "-", "-", <<>>, NoProc)

\* how a file call (path, content) relates to the call before it
Relation(path, content) ==
    IF call.path = path /\ call.op = "create" THEN "create"
    ELSE IF call.path = path /\ call.op = "write" /\ call.content = content THEN "write"
    ELSE "-"

\* the contents tried with an operation and a path: every content where it can
\* be written, two where it is not looked at or the path is a directory
ContentsFor(op, path) ==
    IF op \in {"create", "write", "append"} /\ path = FilePath
    THEN OptTexts
    ELSE {None, <<"a">>}

DriverIdle ==
    /\ driver = "-"
    /\ environ = <<>>
    /\ dotenv = {}
    /\ libRejects = FALSE
    /\ dirExists = TRUE
    /\ pc = "-"
    /\ warnings = 0
    /\ errors = 0

\* no mode has been chosen at a menu
RunIdle ==
    /\ mode = "-"
    /\ plan = <<>>
    /\ step = 0
    /\ sent = <<>>
    /\ reply = <<>>
    /\ shown = <<>>
    /\ banner = FALSE
    /\ reported = "-"
    /\ reads = 0
    /\ typed = <<>>

AgencyIdle ==
    /\ stack = <<>>
    /\ outcomes = <<>>
    /\ fed = "-"
    /\ alive = TRUE
    /\ collected = FALSE

ToolIdle ==
    /\ platform = "posix"
    /\ subExists = FALSE
    /\ gfile = Absent
    /\ pkg = "absent"
    /\ call = NoCall
    /\ result = NoResult
    /\ cmds = <<>>
    /\ prev = "-"

FileInit ==
    /\ agency \in Agencies
    /\ platform \in Platforms
    /\ \E fs \in {<<FALSE, Absent>>, <<TRUE, Absent>>, <<TRUE, <<"a">>>>} :
          subExists = fs[1] /\ gfile = fs[2]
    /\ pkg = "absent"
    /\ call = NoCall
    /\ result = NoResult
    /\ cmds = <<>>
    /\ prev = "-"
    /\ AgencyIdle
    /\ DriverIdle
    /\ RunIdle

\* a role calls FileOperationTool (TypeScriptFileTool in the Node.js agency)
InvokeFile ==
    \E op \in Operations, path \in Paths :
      \E content \in ContentsFor(op, path) :
        /\ op = "append" /\ gfile # Absent /\ content # None
              => Len(gfile) + Len(content) <= MaxLen
        /\ LET o == FileToolRun(FileToolOf(agency), op, path, content,
                                subExists, gfile, platform)
           IN  /\ result' = o.res
               /\ subExists' = o.sub
               /\ gfile' = o.g
        /\ prev' = Relation(path, content)
        /\ call' = Call(FileToolOf(agency), op, path, content, NoProc)
        /\ UNCHANGED <<agency, platform, pkg, cmds>>

FileNext == InvokeFile /\ UNCHANGED <<agencyVars, driverVars, runVars>>

-----------------------------------------------------------------------------
(* CapSpec: the roles of an agency invoke its other capabilities           *)

CapInit ==
    /\ agency \in Agencies
    /\ platform = "posix"
    /\ subExists = FALSE
    /\ gfile = Absent
    /\ pkg \in PkgStates
    /\ call = NoCall
    /\ result = NoResult
    /\ cmds = <<>>
    /\ prev = "-"
    /\ AgencyIdle
    /\ DriverIdle
    /\ RunIdle

\* a role of the Node.js agency calls NodeExecutorTool
InvokeNodeExecutor ==
    /\ agency = "node"
    /\ \E command \in Commands, wd \in WorkingDirs, proc \in ProcOutcomes :
        /\ LET o == NodeExecutorTool_run(command, wd, proc)
           IN  result' = o.res /\ cmds' = o.cmds
        /\ call' = Call("NodeExecutorTool", "run", wd, <<command>>, proc)
        /\ UNCHANGED <<agency, platform, subExists, gfile, pkg, prev>>

\* a role calls the TaskMasterTool of its agency
InvokeTaskMaster ==
    \E task_id \in TaskIds, action \in Actions, status \in Statuses,
       notes \in Notes, proc \in ProcOutcomes :
        /\ LET o == IF agency = "py"
                    THEN TaskMasterTool_run(task_id, action, status, notes, proc)
                    ELSE NodeTaskMasterTool_run(task_id, action, status, notes, proc)
           IN  result' = o.res /\ cmds' = o.cmds
        /\ call' = Call("TaskMasterTool", action, task_id, <<status, notes>>, proc)
        /\ UNCHANGED <<agency, platform, subExists, gfile, pkg, prev>>

\* a role of the Python agency calls PythonExecutorTool
InvokePythonExecutor ==
    /\ agency = "py"
    /\ \E code \in CodeBehaviours :
        /\ LET o == PythonExecutorTool_run(code)
           IN  result' = o.res /\ cmds' = o.cmds
        /\ call' = Call("PythonExecutorTool", "exec", "-", <<code>>, NoProc)
        /\ UNCHANGED <<agency, platform, subExists, gfile, pkg, prev>>

\* a role of the Node.js agency calls PackageJsonTool
InvokePackageJson ==
    /\ agency = "node"
    /\ \E action \in PkgActions \cup {PkgOtherAction}, proc \in ProcOutcomes :
        /\ LET o == PackageJsonTool_run(action, proc, pkg)
           IN  result' = o.res /\ cmds' = o.cmds /\ pkg' = o.pkg
        /\ call' = Call("PackageJsonTool", action, "-", <<>>, proc)
        /\ UNCHANGED <<agency, platform, subExists, gfile, prev>>

CapNext ==
    \/ InvokeNodeExecutor /\ UNCHANGED <<agencyVars, driverVars, runVars>>
    \/ InvokeTaskMaster /\ UNCHANGED <<agencyVars, driverVars, runVars>>
    \/ InvokePythonExecutor /\ UNCHANGED <<agencyVars, driverVars, runVars>>
    \/ InvokePackageJson /\ UNCHANGED <<agencyVars, driverVars, runVars>>

FileSpec == FileInit /\ [][FileNext]_vars

CapSpec == CapInit /\ [][CapNext]_vars

-----------------------------------------------------------------------------
(* Claims about the capabilities                                           *)

\* C2 (as claimed): no fault raised while a capability executes leaves run();
\* every invocation hands a value back to the invoking role.
C2_NoFaultLeavesRun == result.kind # "raise"

IsFileCall(c) == c.tool \in FileTools

\* C3 (as claimed): every invocation of the file capability, whatever the
\* operation, path and content, returns a text.
C3_FileRunReturnsText == IsFileCall(call) => result.kind = "text"

\* the content create writes: content or ""
Created(c) == IF c = None THEN <<>> ELSE c

HasCR(c) == \E i \in 1..Len(c) : c[i] = "CR"

\* a read that follows a create on the same path
ReadAfterCreate ==
    /\ IsFileCall(call) /\ call.op = "create"
    /\ IsFileCall(call') /\ call'.op = "read" /\ call'.path = call.path

\* C4 (as claimed): a create immediately followed by a read on the same path
\* returns exactly the content passed to create, for every path and content.
C4_RoundTripExact ==
    [][ReadAfterCreate => result' = Raw(Created(call.content))]_vars

\* C4 (amended): when create returned its confirmation, the read that follows
\* on the same path returns a text, whatever the file held before, and that
\* text is exactly the content passed to create if and only if the content
\* holds no carriage return.
C4_RoundTripText ==
    [][ReadAfterCreate /\ result.tag = "Created file: "
          => /\ result'.kind = "text" /\ result'.tag = ""
             /\ (result'.body = Created(call.content)) <=> ~HasCR(Created(call.content))
             /\ Len(result'.body) <= Len(Created(call.content))
      ]_vars

\* a read right after a create on the same path gave back the two-character
\* content that was created
C4_Witness ==
    /\ IsFileCall(call) /\ call.op = "read" /\ prev = "create"
    /\ result = Raw(<<"a", "LF">>)

\* a write that follows a write with the same path and content
WriteTwice ==
    /\ IsFileCall(call) /\ call.op = "write"
    /\ IsFileCall(call') /\ call'.op = "write"
    /\ call'.path = call.path /\ call'.content = call.content
    /\ prev' = "write"

IsConfirmation(r) ==
    r.kind = "text" /\ r.tag \in {"Created file: ", "Updated file: ", "Appended to file: "}

\* C5 (as claimed): the second of two identical writes leaves the file as the
\* first left it and returns a confirmation, for every path and content.
C5_WriteTwiceConfirms ==
    [][WriteTwice => /\ gfile' = gfile /\ subExists' = subExists
                     /\ IsConfirmation(result')]_vars

\* C5 (amended): the second of two identical writes leaves the file as the
\* first left it and returns what the first returned: a confirmation if the
\* first call returned one, the same error text otherwise.
C5_WriteTwiceSame ==
    [][WriteTwice => /\ gfile' = gfile /\ subExists' = subExists
                     /\ result' = result
                     /\ IsConfirmation(result') \/ IsErrorText(result')]_vars

\* the second of two identical writes returned its confirmation and the file
\* holds the content
C5_Witness ==
    /\ IsFileCall(call) /\ call.op = "write" /\ prev = "write"
    /\ call.content = <<"a", "a">>
    /\ result = Text("Updated file: ", <<FilePath>>)
    /\ gfile = <<"a", "a">>

IsShellCall(c) == c.tool = "NodeExecutorTool"

\* the shell command of the call was started and ran to its end
Exited(c) == cmds # <<>> /\ c.proc.ran

\* C6: NodeExecutorTool.run returns a text for every input: exactly the
\* captured stdout when the command exits with code 0, the captured stderr
\* after the marker "Error: " when it exits with another code, and a text
\* with an error marker whenever the command fails or cannot be run.
C6_ShellResult ==
    IsShellCall(call) =>
        /\ result.kind = "text"
        /\ Exited(call) /\ call.proc.rc = 0 => result = Raw(call.proc.out)
        /\ Exited(call) /\ call.proc.rc # 0 => result = Text("Error: ", call.proc.err)
        /\ ~(Exited(call) /\ call.proc.rc = 0) => IsErrorText(result)

\* a command that exited with code 1 gave its stderr after the marker
C6_Witness ==
    /\ IsShellCall(call) /\ Exited(call) /\ call.proc.rc = 1
    /\ result = Text("Error: ", <<"a">>)

IsTrackerCall(c) == c.tool = "TaskMasterTool"

\* C7: TaskMasterTool.run returns a text for every input; for a supported
\* action it runs exactly one tracker command and returns its stdout on exit
\* code 0 and an error text otherwise; for any other action it runs no
\* command and returns "Unknown action: " and the action.
C7_TrackerResult ==
    IsTrackerCall(call) =>
        /\ result.kind = "text"
        /\ call.op \in SupportedActions =>
              /\ Len(cmds) = 1
              /\ cmds[1][2] = call.path
              /\ call.proc.ran /\ call.proc.rc = 0 => result = Raw(call.proc.out)
              /\ ~(call.proc.ran /\ call.proc.rc = 0) => IsErrorText(result)
        /\ call.op \notin SupportedActions =>
              /\ cmds = <<>>
              /\ result = Text("Unknown action: ", <<call.op>>)

\* an action outside the supported set was answered without running anything
C7_Witness ==
    /\ IsTrackerCall(call) /\ call.op = "update-note"
    /\ cmds = <<>> /\ result = Text("Unknown action: ", <<"update-note">>)

\* C18: a call of the file capability that returns an error text leaves the
\* file system as it was: the file and its directory are as before the call.
C18_ErrorLeavesFilesAlone ==
    [][ ( IsFileCall(call') /\ IsErrorText(result') ) =>
            gfile' = gfile /\ subExists' = subExists ]_vars

-----------------------------------------------------------------------------
(* The agencies: rosters, toolsets and the agency chart                    *)

\* the names of the agents viral_video_agency.py defines
PyRoster ==
    {"ProjectManager", "InfrastructureDev", "TemplateDev", "ScriptGenDev",
     "MediaDev", "VideoAssemblyDev", "IntegrationDev", "TestingAgent"}

\* the names of the agents viral_video_agency_nodejs.py defines
NodeRoster ==
    {"ProjectManager", "NodeInfrastructureDev", "NodeTemplateDev", "NodeScriptGenDev",
     "NodeMediaDev", "NodeVideoAssemblyDev", "NodeCLIDev", "NodeTestingAgent"}

Roster(a) == IF a = "py" THEN PyRoster ELSE NodeRoster

\* the agents of viral_video_agency.py with two of them given one name
PyAgents_TwoTesting ==
    <<"ProjectManager", "InfrastructureDev", "TemplateDev", "ScriptGenDev",
      "MediaDev", "VideoAssemblyDev", "TestingAgent", "TestingAgent">>

\* name= of the Agent(...) definitions of viral_video_agency.py, in order
PyAgents ==
    <<"ProjectManager", "InfrastructureDev", "TemplateDev", "ScriptGenDev",
      "MediaDev", "VideoAssemblyDev", "IntegrationDev", "TestingAgent">>

\* name= of the Agent(...) definitions of viral_video_agency_nodejs.py
NodeAgents ==
    <<"ProjectManager", "NodeInfrastructureDev", "NodeTemplateDev", "NodeScriptGenDev",
      "NodeMediaDev", "NodeVideoAssemblyDev", "NodeCLIDev", "NodeTestingAgent">>

Agents(a) == IF a = "py" THEN PyAgents ELSE NodeAgents

\* the BaseTool classes each agency module defines
PyDeclaredTools == {"TaskMasterTool", "FileOperationTool", "PythonExecutorTool"}
NodeDeclaredTools ==
    {"NodeExecutorTool", "TypeScriptFileTool", "PackageJsonTool", "TaskMasterTool"}
DeclaredTools(a) == IF a = "py" THEN PyDeclaredTools ELSE NodeDeclaredTools

\* toolsets of the Node.js agency that name the Python agency's file tool
NodeToolset_PyFileTool(role) ==
    IF role = "ProjectManager"
    THEN {"TaskMasterTool", "NodeExecutorTool"}
    ELSE {"FileOperationTool", "NodeExecutorTool", "TaskMasterTool"}

\* toolsets in which only the root has the task tracker
PyToolset_RootOnlyTracker(role) ==
    IF role = "ProjectManager"
    THEN {"TaskMasterTool", "FileOperationTool"}
    ELSE {"FileOperationTool", "PythonExecutorTool"}

\* tools=[...] of each agent
PyToolset(role) ==
    IF role = "ProjectManager"
    THEN {"TaskMasterTool", "FileOperationTool"}
    ELSE {"FileOperationTool", "PythonExecutorTool", "TaskMasterTool"}

NodeToolset(role) ==
    IF role = "ProjectManager"
    THEN {"TaskMasterTool", "NodeExecutorTool"}
    ELSE IF role \in {"NodeInfrastructureDev", "NodeCLIDev"}
    THEN {"TypeScriptFileTool", "PackageJsonTool", "NodeExecutorTool", "TaskMasterTool"}
    ELSE {"TypeScriptFileTool", "NodeExecutorTool", "TaskMasterTool"}

Toolset(a, role) == IF a = "py" THEN PyToolset(role) ELSE NodeToolset(role)

\* the chart without the entry [project_manager, media_dev]
PyChart_NoMediaEntry ==
    << <<"ProjectManager">>,
       <<"ProjectManager", "InfrastructureDev">>,
       <<"ProjectManager", "TemplateDev">>,
       <<"ProjectManager", "ScriptGenDev">>,
       <<"ProjectManager", "VideoAssemblyDev">>,
       <<"ProjectManager", "IntegrationDev">>,
       <<"ProjectManager", "TestingAgent">>,
       <<"InfrastructureDev", "TestingAgent">>,
       <<"TemplateDev", "ScriptGenDev">>,
       <<"ScriptGenDev", "VideoAssemblyDev">>,
       <<"MediaDev", "VideoAssemblyDev">>,
       <<"VideoAssemblyDev", "IntegrationDev">>,
       <<"IntegrationDev", "TestingAgent">> >>

\* the chart with one more flow, from the testing agent back to the root
PyChart_TestingEscalates ==
    << <<"ProjectManager">>,
       <<"ProjectManager", "InfrastructureDev">>,
       <<"ProjectManager", "TemplateDev">>,
       <<"ProjectManager", "ScriptGenDev">>,
       <<"ProjectManager", "MediaDev">>,
       <<"ProjectManager", "VideoAssemblyDev">>,
       <<"ProjectManager", "IntegrationDev">>,
       <<"ProjectManager", "TestingAgent">>,
       <<"InfrastructureDev", "TestingAgent">>,
       <<"TemplateDev", "ScriptGenDev">>,
       <<"ScriptGenDev", "VideoAssemblyDev">>,
       <<"MediaDev", "VideoAssemblyDev">>,
       <<"VideoAssemblyDev", "IntegrationDev">>,
       <<"IntegrationDev", "TestingAgent">>,
       <<"TestingAgent", "ProjectManager">> >>

\* the agency chart of viral_video_agency.py: the entry point, then the
\* communication flows [sender, receiver]
PyChart ==
    << <<"ProjectManager">>,
       <<"ProjectManager", "InfrastructureDev">>,
       <<"ProjectManager", "TemplateDev">>,
       <<"ProjectManager", "ScriptGenDev">>,
       <<"ProjectManager", "MediaDev">>,
       <<"ProjectManager", "VideoAssemblyDev">>,
       <<"ProjectManager", "IntegrationDev">>,
       <<"ProjectManager", "TestingAgent">>,
       <<"InfrastructureDev", "TestingAgent">>,
       <<"TemplateDev", "ScriptGenDev">>,
       <<"ScriptGenDev", "VideoAssemblyDev">>,
       <<"MediaDev", "VideoAssemblyDev">>,
       <<"VideoAssemblyDev", "IntegrationDev">>,
       <<"IntegrationDev", "TestingAgent">> >>

\* the chart with its last flow written the other way round
NodeChart_TestingReports ==
    << <<"ProjectManager">>,
       <<"ProjectManager", "NodeInfrastructureDev">>,
       <<"ProjectManager", "NodeTemplateDev">>,
       <<"ProjectManager", "NodeScriptGenDev">>,
       <<"ProjectManager", "NodeMediaDev">>,
       <<"ProjectManager", "NodeVideoAssemblyDev">>,
       <<"ProjectManager", "NodeCLIDev">>,
       <<"ProjectManager", "NodeTestingAgent">>,
       <<"NodeInfrastructureDev", "NodeTestingAgent">>,
       <<"NodeTemplateDev", "NodeScriptGenDev">>,
       <<"NodeScriptGenDev", "NodeVideoAssemblyDev">>,
       <<"NodeMediaDev", "NodeVideoAssemblyDev">>,
       <<"NodeVideoAssemblyDev", "NodeCLIDev">>,
       <<"NodeTestingAgent", "NodeCLIDev">> >>

\* the chart with the flow between assembly and CLI written the other way
NodeChart_CLIFeedsAssembly ==
    << <<"ProjectManager">>,
       <<"ProjectManager", "NodeInfrastructureDev">>,
       <<"ProjectManager", "NodeTemplateDev">>,
       <<"ProjectManager", "NodeScriptGenDev">>,
       <<"ProjectManager", "NodeMediaDev">>,
       <<"ProjectManager", "NodeVideoAssemblyDev">>,
       <<"ProjectManager", "NodeCLIDev">>,
       <<"ProjectManager", "NodeTestingAgent">>,
       <<"NodeInfrastructureDev", "NodeTestingAgent">>,
       <<"NodeTemplateDev", "NodeScriptGenDev">>,
       <<"NodeScriptGenDev", "NodeVideoAssemblyDev">>,
       <<"NodeMediaDev", "NodeVideoAssemblyDev">>,
       <<"NodeCLIDev", "NodeVideoAssemblyDev">>,
       <<"NodeCLIDev", "NodeTestingAgent">> >>

\* the agency chart of viral_video_agency_nodejs.py
NodeChart ==
    << <<"ProjectManager">>,
       <<"ProjectManager", "NodeInfrastructureDev">>,
       <<"ProjectManager", "NodeTemplateDev">>,
       <<"ProjectManager", "NodeScriptGenDev">>,
       <<"ProjectManager", "NodeMediaDev">>,
       <<"ProjectManager", "NodeVideoAssemblyDev">>,
       <<"ProjectManager", "NodeCLIDev">>,
       <<"ProjectManager", "NodeTestingAgent">>,
       <<"NodeInfrastructureDev", "NodeTestingAgent">>,
       <<"NodeTemplateDev", "NodeScriptGenDev">>,
       <<"NodeScriptGenDev", "NodeVideoAssemblyDev">>,
       <<"NodeMediaDev", "NodeVideoAssemblyDev">>,
       <<"NodeVideoAssemblyDev", "NodeCLIDev">>,
       <<"NodeCLIDev", "NodeTestingAgent">> >>

Chart(a) == IF a = "py" THEN PyChart ELSE NodeChart

\* the root taken to be the sender of the chart's last flow
Root_LastSender(a) == Chart(a)[Len(Chart(a))][1]

\* the root role: the entry of the chart that is an agent, not a flow
Root(a) ==
    LET chart == Chart(a)
    IN  chart[CHOOSE i \in DOMAIN chart : Len(chart[i]) = 1][1]

\* the Dispatch Edges: one per flow [sender, receiver] of the chart
DispatchEdges(a) ==
    LET chart == Chart(a)
    IN  { <<chart[i][1], chart[i][2]>> : i \in {j \in DOMAIN chart : Len(chart[j]) = 2} }

\* the roles a role may delegate to
Recipients(a, role) == { e[2] : e \in {x \in DispatchEdges(a) : x[1] = role} }

\* the roles reachable from the roles S along the edges E
RECURSIVE ReachableFrom(_, _)
ReachableFrom(S, E) ==
    LET N == S \cup { e[2] : e \in {x \in E : x[1] \in S} }
    IN  IF N = S THEN S ELSE ReachableFrom(N, E)

-----------------------------------------------------------------------------
(* Spec: Task Requests submitted to an agency with get_completion          *)

\* the kinds of value each capability's run() can end with, over its inputs
ResultKinds(tool) ==
    CASE tool \in FileTools ->
            { FileToolRun(tool, op, path, c, TRUE, <<>>, "posix").res.kind :
                op \in Operations, path \in Paths, c \in {None, <<"a">>} }
      [] tool = "TaskMasterTool" ->
            { TaskMasterTool_run("11.1", act, "None", "None", proc).res.kind :
                act \in Actions, proc \in ProcOutcomes }
      [] tool = "PythonExecutorTool" ->
            { PythonExecutorTool_run(code).res.kind : code \in CodeBehaviours }
      [] tool = "NodeExecutorTool" ->
            { NodeExecutorTool_run("npm test", wd, proc).res.kind :
                wd \in WorkingDirs, proc \in ProcOutcomes }
      [] tool = "PackageJsonTool" ->
            { PackageJsonTool_run(act, proc, k).res.kind :
                act \in PkgActions \cup {PkgOtherAction}, proc \in ProcOutcomes,
                k \in PkgStates }

Frame(role, st) == [role |-> role, st |-> st]
Top == stack[Len(stack)]
SetTop(st) == [stack EXCEPT ![Len(stack)].st = st]

\* the role on top is reasoning: it may answer, delegate or use a capability
Deciding == stack # <<>> /\ Top.st \in {"Reasoning", "Returned"}

Outcome(state, payload) == [state |-> state, payload |-> payload]

AgencyInit ==
    /\ agency \in Agencies
    /\ ToolIdle
    /\ AgencyIdle
    /\ DriverIdle
    /\ RunIdle

\* the driver calls viral_video_agency.get_completion(prompt)
Submit ==
    /\ alive /\ stack = <<>> /\ Len(outcomes) < MaxRequests
    /\ stack' = <<Frame(Root(agency), "Pending")>>
    /\ collected' = FALSE
    /\ UNCHANGED <<outcomes, fed, alive>>

\* the role a request or sub-request reached starts reasoning about it
BeginReasoning ==
    /\ alive /\ stack # <<>> /\ Top.st = "Pending"
    /\ stack' = SetTop("Reasoning")
    /\ UNCHANGED <<outcomes, fed, alive, collected>>

\* the reasoning role delegates along one of its flows
Delegate ==
    /\ alive /\ Deciding
    /\ \E to \in Recipients(agency, Top.role) :
          stack' = Append(SetTop("Delegating"), Frame(to, "Pending"))
    /\ UNCHANGED <<outcomes, fed, alive, collected>>

\* the reasoning role invokes a capability of its toolset; the value run()
\* returns is fed back to it, a fault that leaves run() unwinds the process
Invoke ==
    /\ alive /\ Deciding
    /\ \E tool \in Toolset(agency, Top.role) : \E kind \in ResultKinds(tool) :
          IF kind = "raise"
          THEN alive' = FALSE /\ fed' = fed
          ELSE alive' = TRUE /\ fed' = kind
    /\ UNCHANGED <<stack, outcomes, collected>>

\* a delegated role answers: its text goes back to the role that delegated
Return ==
    /\ alive /\ Deciding /\ Len(stack) > 1
    /\ stack' = [SubSeq(stack, 1, Len(stack) - 1) EXCEPT ![Len(stack) - 1].st = "Returned"]
    /\ collected' = (collected \/ Len(stack) = 2)
    /\ UNCHANGED <<outcomes, fed, alive>>

\* the root answers although a role it delegated to has not returned
Complete_NoJoin ==
    /\ alive /\ stack # <<>> /\ stack[1].st # "Pending"
    /\ outcomes' = Append(outcomes, Outcome("Completed", "text"))
    /\ stack' = <<>>
    /\ UNCHANGED <<fed, alive, collected>>

\* the root role answers: get_completion returns the text
Complete ==
    /\ alive /\ Deciding /\ Len(stack) = 1
    /\ outcomes' = Append(outcomes, Outcome("Completed", "text"))
    /\ stack' = <<>>
    /\ UNCHANGED <<fed, alive, collected>>

\* the model call fails or the budget is spent: get_completion raises
Fail ==
    /\ alive /\ stack # <<>>
    /\ outcomes' = Append(outcomes, Outcome("Failed", "error"))
    /\ stack' = <<>>
    /\ UNCHANGED <<fed, alive, collected>>

Next ==
    \/ Submit /\ UNCHANGED <<toolVars, driverVars, runVars>>
    \/ BeginReasoning /\ UNCHANGED <<toolVars, driverVars, runVars>>
    \/ Delegate /\ UNCHANGED <<toolVars, driverVars, runVars>>
    \/ Invoke /\ UNCHANGED <<toolVars, driverVars, runVars>>
    \/ Return /\ UNCHANGED <<toolVars, driverVars, runVars>>
    \/ Complete /\ UNCHANGED <<toolVars, driverVars, runVars>>
    \/ Fail /\ UNCHANGED <<toolVars, driverVars, runVars>>

Spec == AgencyInit /\ [][Next]_vars

-----------------------------------------------------------------------------
(* Claims about the agency                                                 *)

\* C1: in the agency at hand (either one), every role of the roster is
\* reachable from the root ProjectManager along Dispatch Edges: no role is an
\* orphan, and every role that serves a request is one of them.
C1_NoOrphanRole ==
    /\ Root(agency) = "ProjectManager"
    /\ Roster(agency) \subseteq ReachableFrom({Root(agency)}, DispatchEdges(agency))
    /\ \A i \in DOMAIN stack :
          stack[i].role \in ReachableFrom({Root(agency)}, DispatchEdges(agency))

\* the role at the far end of the longest chain of flows is serving a
\* request delegated down that chain
C1_Witness ==
    /\ Len(stack) = 6
    /\ Top.role \in {"TestingAgent", "NodeTestingAgent"}
    /\ Top.st = "Reasoning"

\* the roles that have no outbound Dispatch Edge
Leaves(a) == { r \in Roster(a) : Recipients(a, r) = {} }

\* C9: every delegation under way goes from a role to a role it has a
\* declared Dispatch Edge to; the testing role, which has no outbound edge,
\* is the only role that cannot delegate and never has a delegation under way.
C9_DelegationAlongEdges ==
    /\ Leaves(agency) = Roster(agency) \cap {"TestingAgent", "NodeTestingAgent"}
    /\ \A i \in 1..(Len(stack) - 1) :
          /\ <<stack[i].role, stack[i + 1].role>> \in DispatchEdges(agency)
          /\ stack[i].role \notin {"TestingAgent", "NodeTestingAgent"}
          /\ stack[i].st = "Delegating"

\* a worker that the root delegated to has itself delegated along its own edge
C9_Witness ==
    /\ Len(stack) = 3
    /\ stack[1].role = "ProjectManager"
    /\ stack[2].role \in {"TemplateDev", "NodeTemplateDev"}
    /\ stack[3].role \in {"ScriptGenDev", "NodeScriptGenDev"}

\* the state of the i-th Task Request of the run
ReqState(i) ==
    IF i <= Len(outcomes) THEN outcomes[i].state
    ELSE IF i = Len(outcomes) + 1 /\ stack # <<>>
    THEN (IF stack[1].st = "Reasoning" THEN "RootReasoning" ELSE stack[1].st)
    ELSE "NotSubmitted"

Terminal == {"Completed", "Failed"}

\* the steps of the state machine of a Task Request
RequestSteps ==
    {<<"NotSubmitted", "Pending">>, <<"Pending", "RootReasoning">>,
     <<"RootReasoning", "Delegating">>, <<"Delegating", "Returned">>,
     <<"Returned", "Delegating">>,
     <<"RootReasoning", "Completed">>, <<"Returned", "Completed">>,
     <<"Pending", "Failed">>, <<"RootReasoning", "Failed">>,
     <<"Delegating", "Failed">>, <<"Returned", "Failed">>}

\* the sub-request a delegation opened is Pending, then reasoned about by the
\* role it was delegated to, until that role returns
SubRequestStates == {"Pending", "Reasoning", "Delegating", "Returned"}

\* C10: a Task Request goes Pending, Root Reasoning (by the root
\* ProjectManager), then any number of delegations, each a sub-request that
\* is Pending until it has Returned, and ends Completed with a text or Failed
\* with an error; once it is Completed or Failed it never changes again.
C10_RequestStateMachine ==
    [][ /\ \A i \in 1..MaxRequests :
              \/ ReqState(i)' = ReqState(i)
              \/ <<ReqState(i), ReqState(i)'>> \in RequestSteps
        /\ \A i \in 1..Len(outcomes) :
              /\ Len(outcomes') >= i /\ outcomes'[i] = outcomes[i]
              /\ outcomes[i] \in {Outcome("Completed", "text"), Outcome("Failed", "error")}
        /\ stack' # <<>> =>
              /\ stack'[1].role = "ProjectManager"
              /\ \A k \in DOMAIN stack' : stack'[k].st \in SubRequestStates
              /\ \A k \in 1..(Len(stack') - 1) : stack'[k].st = "Delegating"
      ]_vars

\* the first request has Failed and stays so while the root, serving the
\* second, has a delegation under way
C10_Witness ==
    /\ Len(outcomes) = 1 /\ outcomes[1].state = "Failed"
    /\ Len(stack) = 2 /\ stack[1].st = "Delegating" /\ stack[2].st = "Pending"

C15_RoleNamesUnique ==
    /\ \A i, j \in DOMAIN Agents(agency) :
          Agents(agency)[i] = Agents(agency)[j] => i = j
    /\ { Agents(agency)[i] : i \in DOMAIN Agents(agency) } = Roster(agency)
    /\ Cardinality(Roster(agency)) = Len(Agents(agency))
    /\ \A k \in DOMAIN stack :
          Cardinality({ i \in DOMAIN Agents(agency) : Agents(agency)[i] = stack[k].role }) = 1

\* the agents declared seventh and eighth in the Python module are both at
\* work, each under its own name
C15_Witness ==
    /\ agency = "py" /\ Len(stack) >= 2
    /\ stack[Len(stack) - 1].role = PyAgents[7]
    /\ stack[Len(stack)].role = PyAgents[8]

\* C16: every capability in the toolset of a role is one the role's own
\* agency module declares.
C16_ToolsetsDeclared ==
    \A role \in Roster(agency) :
        /\ Toolset(agency, role) # {}
        /\ Toolset(agency, role) \subseteq DeclaredTools(agency)

\* a worker of the Node.js agency has invoked a capability of its toolset
\* and was fed its result
C16_Witness ==
    /\ agency = "node" /\ Len(stack) = 2 /\ fed = "text"
    /\ stack[2].role = "NodeTemplateDev" /\ stack[2].st = "Reasoning"

\* C19: the Dispatch Edges form no cycle and none leads to the root, so the
\* roles serving a request are all different, the root is only the first of
\* them, and a chain of delegations has at most 5 edges.
C19_DispatchGraphAcyclic ==
    /\ \A r \in Roster(agency) :
          r \notin ReachableFrom(Recipients(agency, r), DispatchEdges(agency))
    /\ \A e \in DispatchEdges(agency) : e[2] # Root(agency)
    /\ Len(stack) <= 6
    /\ \A i, j \in DOMAIN stack : stack[i].role = stack[j].role => i = j
    /\ \A i \in DOMAIN stack : i > 1 => stack[i].role # "ProjectManager"

\* the longest chain of the Python agency: root, template, script
\* generation, assembly, integration, testing
C19_Witness ==
    /\ agency = "py" /\ Len(stack) = 6
    /\ [i \in 1..6 |-> stack[i].role] =
          <<"ProjectManager", "TemplateDev", "ScriptGenDev", "VideoAssemblyDev",
            "IntegrationDev", "TestingAgent">>
    /\ stack[6].st = "Pending"

\* C23: every role of the agency, the root included, has the task tracker
\* in its toolset, so whichever role a request is delegated to can use it.
C23_EveryRoleHasTracker ==
    /\ \A role \in Roster(agency) : "TaskMasterTool" \in Toolset(agency, role)
    /\ "TaskMasterTool" \in DeclaredTools(agency)
    /\ \A k \in DOMAIN stack : "TaskMasterTool" \in Toolset(agency, stack[k].role)

\* the testing agent of the Python agency, reached through two delegations,
\* has used a capability and been fed its text
C23_Witness ==
    /\ agency = "py" /\ Len(stack) = 3 /\ fed = "text"
    /\ stack[3].role = "TestingAgent" /\ stack[3].st = "Reasoning"
    /\ stack[2].role = "InfrastructureDev"

\* the renaming of the Python agency's roles into the Node.js agency's:
\* "Node" before the name, IntegrationDev to NodeCLIDev, the root as it is
Renamed(role) ==
    CASE role = "ProjectManager" -> "ProjectManager"
      [] role = "InfrastructureDev" -> "NodeInfrastructureDev"
      [] role = "TemplateDev" -> "NodeTemplateDev"
      [] role = "ScriptGenDev" -> "NodeScriptGenDev"
      [] role = "MediaDev" -> "NodeMediaDev"
      [] role = "VideoAssemblyDev" -> "NodeVideoAssemblyDev"
      [] role = "IntegrationDev" -> "NodeCLIDev"
      [] role = "TestingAgent" -> "NodeTestingAgent"

\* C24: the renaming is one-to-one from the Python roster onto the Node.js
\* roster, and a pair of roles is a Dispatch Edge of the Python agency
\* exactly when the renamed pair is one of the Node.js agency; so the roles
\* serving a request in either agency form a chain of the other, renamed.
C24_ChartsIsomorphic ==
    /\ \A r, q \in PyRoster : Renamed(r) = Renamed(q) => r = q
    /\ { Renamed(r) : r \in PyRoster } = NodeRoster
    /\ \A r, q \in PyRoster :
          <<r, q>> \in DispatchEdges("py") <=>
              <<Renamed(r), Renamed(q)>> \in DispatchEdges("node")
    /\ Cardinality(DispatchEdges("py")) = Cardinality(DispatchEdges("node"))
    /\ Renamed(Root("py")) = Root("node")
    /\ \A i \in 1..(Len(stack) - 1) :
          IF agency = "py"
          THEN <<Renamed(stack[i].role), Renamed(stack[i + 1].role)>>
                   \in DispatchEdges("node")
          ELSE \E r, q \in PyRoster :
                   /\ Renamed(r) = stack[i].role /\ Renamed(q) = stack[i + 1].role
                   /\ <<r, q>> \in DispatchEdges("py")

\* in the Node.js agency the assembly role has delegated to the CLI role,
\* the counterpart of the Python agency's integration role
C24_Witness ==
    /\ agency = "node" /\ Len(stack) = 3
    /\ stack[2].role = Renamed("VideoAssemblyDev")
    /\ stack[3].role = Renamed("IntegrationDev")
    /\ stack[3].st = "Pending"

\* the agency keeps working on a request while some step is possible: the
\* library's loop runs until the root answers or the model call fails
FairSpec == AgencyInit /\ [][Next]_vars /\ WF_vars(Next)

\* C14: every Task Request submitted eventually reaches Completed or Failed:
\* whenever a request is outstanding, later none is.
C14_EveryRequestTerminates == (stack # <<>>) ~> (stack = <<>>)

-----------------------------------------------------------------------------
(* DriverSpec: the start of run_agency.py, start_building.py and           *)
(* start_building_nodejs.py, up to the mode menu                           *)

Drivers == {"start_building", "start_building_nodejs", "run_agency"}

\* the agency module each driver imports
AgencyOf(d) == IF d = "start_building_nodejs" THEN "node" ELSE "py"

ModelKey == "OPENAI_API_KEY"
Secrets == {"OPENAI_API_KEY", "ELEVENLABS_API_KEY", "PEXELS_API_KEY", "PIXABAY_API_KEY"}

\* load_dotenv(): a key of .env is set unless os.environ already has it
LoadDotenv(e, file) ==
    [k \in Secrets |-> IF e[k] = "unset" /\ k \in file THEN "set" ELSE e[k]]

\* the keys reported by a test "os.getenv(key) is None"
MissingKeys_IsNone(e) == { k \in Secrets : e[k] = "unset" }

\* [key for key in required_keys if not os.getenv(key)]
MissingKeys(e) == { k \in Secrets : e[k] # "set" }

\* set_openai_key(os.getenv("OPENAI_API_KEY")) at the top of the agency
\* module: whether the library raises on a missing key is the library's
ImportAgencyRaises(e) == e[ModelKey] # "set" /\ libRejects

DriverInit ==
    /\ driver \in Drivers
    /\ agency = AgencyOf(driver)
    /\ environ \in [Secrets -> {"unset", "empty", "set"}]
    /\ dotenv \in SUBSET Secrets
    /\ libRejects \in BOOLEAN
    /\ dirExists \in BOOLEAN
    /\ pc = "start"
    /\ warnings = 0
    /\ errors = 0
    /\ ToolIdle
    /\ AgencyIdle
    /\ RunIdle

\* run_agency.py, line 8: the import of the agency module
RunAgencyImport ==
    /\ driver = "run_agency" /\ pc = "start"
    /\ pc' = IF ImportAgencyRaises(environ) THEN "crashed" ELSE "main"
    /\ UNCHANGED <<driver, environ, dotenv, libRejects, dirExists, warnings, errors>>

\* run_agency.py, __main__: chdir, the warning for the missing keys, main()
RunAgencyMain ==
    /\ driver = "run_agency" /\ pc = "main"
    /\ IF ~dirExists
       THEN pc' = "crashed" /\ warnings' = warnings
       ELSE /\ warnings' = IF MissingKeys(environ) # {} THEN warnings + 1 ELSE warnings
            /\ pc' = "menu"
    /\ UNCHANGED <<driver, environ, dotenv, libRejects, dirExists, errors>>

\* start_building*.py, lines 12-18: load_dotenv(), then
\* os.environ["OPENAI_API_KEY"] = os.getenv("OPENAI_API_KEY"), which raises
\* TypeError when the key is unset, then the import of the agency module
StartBuildingTopLevel ==
    /\ driver \in {"start_building", "start_building_nodejs"} /\ pc = "start"
    /\ environ' = LoadDotenv(environ, dotenv)
    /\ pc' = IF environ'[ModelKey] = "unset" \/ ImportAgencyRaises(environ')
             THEN "crashed" ELSE "main"
    /\ UNCHANGED <<driver, dotenv, libRejects, dirExists, warnings, errors>>

\* start_building*.py, __main__: chdir, the check of the model key (an error
\* message and sys.exit(1) when it is missing), main()
StartBuildingMain ==
    /\ driver \in {"start_building", "start_building_nodejs"} /\ pc = "main"
    /\ IF ~dirExists
       THEN pc' = "crashed" /\ errors' = errors
       ELSE IF environ[ModelKey] # "set"
       THEN pc' = "exited" /\ errors' = errors + 1
       ELSE pc' = "menu" /\ errors' = errors
    /\ UNCHANGED <<driver, environ, dotenv, libRejects, dirExists, warnings>>

DriverNext ==
    \/ StartBuildingTopLevel /\ UNCHANGED <<toolVars, agencyVars, runVars>>
    \/ StartBuildingMain /\ UNCHANGED <<toolVars, agencyVars, runVars>>
    \/ RunAgencyImport /\ UNCHANGED <<toolVars, agencyVars, runVars>>
    \/ RunAgencyMain /\ UNCHANGED <<toolVars, agencyVars, runVars>>

DriverSpec == DriverInit /\ [][DriverNext]_vars

-----------------------------------------------------------------------------
(* Claims about the drivers                                                *)

Stopped == pc \in {"crashed", "exited"}

OtherSecrets == Secrets \ {ModelKey}

-----------------------------------------------------------------------------
(* RunSpec: the drivers from their mode menu on                            *)

\* a text, known by where it comes from and its number of characters
TextOf(id, len) == [id |-> id, len |-> len]

\* text[:n]
Slice(text, n) == [text EXCEPT !.len = IF text.len < n THEN text.len ELSE n]

\* run_agency.py: task[:80] in the step line, result[:200] in the completion line
StepLineChars == 80
CompletionLineChars == 200

\* the prompts of automated_build in start_building.py, in the order of its phases
PyBuildPrompts ==
    << TextOf("task_11_prompt", 526), TextOf("task_12_prompt", 539),
       TextOf("task_13_prompt", 430), TextOf("task_14_15_prompt", 528),
       TextOf("task_16_prompt", 422), TextOf("task_20_prompt", 437),
       TextOf("test_prompt", 364) >>

\* the prompts of automated_build in start_building_nodejs.py
NodeBuildPrompts ==
    << TextOf("setup_prompt", 757), TextOf("template_prompt", 550),
       TextOf("openai_prompt", 524), TextOf("media_prompt", 519),
       TextOf("ffmpeg_prompt", 542), TextOf("cli_prompt", 663),
       TextOf("test_prompt", 433) >>

\* the list tasks of run_agency.py's full autonomous build
FullBuildTasks ==
    << TextOf("tasks[0]", 191), TextOf("tasks[1]", 138), TextOf("tasks[2]", 104),
       TextOf("tasks[3]", 83), TextOf("tasks[4]", 72), TextOf("tasks[5]", 73),
       TextOf("tasks[6]", 76), TextOf("tasks[7]", 70), TextOf("tasks[8]", 52) >>

\* the prompt of the "check status" choice of start_building*.py
StatusPrompt(d) ==
    IF d = "start_building" THEN TextOf("status", 72) ELSE TextOf("status", 47)

\* what the user may type at run_agency's "Enter task command: "
TypedTasks == {TextOf("task", 0), TextOf("task", 90)}

\* the texts get_completion may return: an answer, or the text of an error
\* that a capability returned and the root passed on
Replies ==
    {TextOf("result", 150), TextOf("result", 200), TextOf("result", 250),
     TextOf("Error: ", 60)}

\* the success lines of automated_build in start_building.py, one per phase
PySuccessLines ==
    << TextOf("Infrastructure setup complete", 31), TextOf("Template system implemented", 29),
       TextOf("Script generator ready", 24), TextOf("Media processors implemented", 30),
       TextOf("Video assembly engine complete", 32), TextOf("Main application ready", 24),
       TextOf("Testing complete", 18) >>

\* the success lines of automated_build in start_building_nodejs.py
NodeSuccessLines ==
    << TextOf("Node.js project initialized", 29), TextOf("Template system implemented", 29),
       TextOf("Script generation ready", 25), TextOf("Media APIs integrated", 23),
       TextOf("Video assembly complete", 25), TextOf("CLI ready", 11),
       TextOf("Testing complete", 18) >>

SuccessLines(d) == IF d = "start_building" THEN PySuccessLines ELSE NodeSuccessLines

\* the lines the user may type at the mode menu, character by character
Choices ==
    { <<"1">>, <<"2">>, <<"3">>, <<"4">>, <<" ", "3", "TAB">>,
      <<"5">>, <<>>, <<" ">>, <<"1", "2">>, <<" ", "x", " ">>, <<"4", " ", "4">> }

\* a menu that opens the interface on any choice it does not know
ModeOf_Lenient(d, choice) ==
    IF d = "run_agency"
    THEN CASE choice = <<"3">> -> "task"
           [] choice = <<"4">> -> "full"
           [] OTHER -> "ui"
    ELSE CASE choice = <<"1">> -> "build"
           [] choice = <<"2">> -> "interactive"
           [] choice = <<"4">> -> "status"
           [] OTHER -> "ui"

\* the branch of main() a choice, stripped, takes
ModeOf(d, choice) ==
    IF d = "run_agency"
    THEN CASE choice \in {<<"1">>, <<"2">>} -> "ui"
           [] choice = <<"3">> -> "task"
           [] choice = <<"4">> -> "full"
           [] OTHER -> "invalid"
    ELSE CASE choice = <<"1">> -> "build"
           [] choice = <<"2">> -> "interactive"
           [] choice = <<"3">> -> "ui"
           [] choice = <<"4">> -> "status"
           [] OTHER -> "invalid"

\* the prompts a mode submits, in the order the code lists them
PlanOf(d, m, task) ==
    CASE m = "build" -> IF d = "start_building" THEN PyBuildPrompts ELSE NodeBuildPrompts
      [] m = "full" -> FullBuildTasks
      [] m = "status" -> <<StatusPrompt(d)>>
      [] m = "task" -> <<task>>
      [] OTHER -> <<>>

\* the lines a user may type in interactive mode, character by character
Whitespace == {" ", "TAB"}
RawCommands ==
    { <<>>, <<" ">>, <<"e", "x", "i", "t">>, <<" ", "E", "x", "I", "T", "TAB">>,
      <<"Q", "U", "I", "T">>, <<"l", "s">>, <<" ", "l", "s", " ">>,
      <<"e", "x", "i", "t", " ", "l">> }

\* str.strip()
RECURSIVE LStrip(_)
LStrip(s) == IF s # <<>> /\ Head(s) \in Whitespace THEN LStrip(Tail(s)) ELSE s
RECURSIVE RStrip(_)
RStrip(s) ==
    IF s # <<>> /\ s[Len(s)] \in Whitespace THEN RStrip(SubSeq(s, 1, Len(s) - 1)) ELSE s
Strip(s) == RStrip(LStrip(s))

\* str.lower()
LowerChar(c) ==
    CASE c = "E" -> "e" [] c = "X" -> "x" [] c = "I" -> "i" [] c = "T" -> "t"
      [] c = "Q" -> "q" [] c = "U" -> "u" [] OTHER -> c
Lower(s) == [i \in DOMAIN s |-> LowerChar(s[i])]

\* command.lower() in ['exit', 'quit']
IsExit(cmd) == Lower(cmd) \in {<<"e", "x", "i", "t">>, <<"q", "u", "i", "t">>}

\* a loop that submits the empty command like any other
SkipsEmpty_Never(d) == FALSE

\* "if not command: continue" is in start_building.py's loop only
SkipsEmpty(d) == d = "start_building"

\* commands read in one interactive session
MaxCommands == 2

driverEnv == <<driver, environ, dotenv, libRejects, dirExists, warnings, errors>>

\* a driver has reached its mode menu
RunInit ==
    /\ driver \in Drivers
    /\ agency = AgencyOf(driver)
    /\ environ = [k \in Secrets |-> "set"]
    /\ dotenv = {}
    /\ libRejects = FALSE
    /\ dirExists = TRUE
    /\ pc = "menu"
    /\ warnings = 0
    /\ errors = 0
    /\ ToolIdle
    /\ AgencyIdle
    /\ RunIdle

\* main(): the line typed at the menu, stripped, selects the mode
Main ==
    /\ pc = "menu"
    /\ \E raw \in Choices, task \in TypedTasks :
          /\ typed' = raw
          /\ mode' = ModeOf(driver, Strip(raw))
          /\ plan' = PlanOf(driver, mode', task)
          /\ pc' = CASE mode' = "ui" -> "ui"
                     [] mode' = "invalid" ->
                          IF driver = "run_agency" THEN "exited" ELSE "done"
                     [] OTHER -> "ready"
    /\ UNCHANGED <<step, sent, reply, shown, banner, reported, reads>>

\* the driver enters viral_video_agency.get_completion(prompt) and waits
Call_get_completion(prompt) ==
    /\ alive /\ stack = <<>>
    /\ sent' = Append(sent, prompt)
    /\ stack' = <<Frame(Root(agency), "Pending")>>
    /\ collected' = FALSE
    /\ pc' = "waiting"
    /\ UNCHANGED <<outcomes, fed, alive>>

\* a driver that goes back to the step it has just done
StepAfter_Repeat(k) == IF k = 0 THEN 1 ELSE k

\* the statement after step k is step k + 1
StepAfter(k) == k + 1

\* a driver that submits what it displays
StepPrompt_Displayed(k) == Slice(plan[k], StepLineChars)

\* the prompt handed to get_completion for step k
StepPrompt(k) == plan[k]

\* the next phase of automated_build, the next task of the full build, the
\* status request or the typed task: its lines are printed, it is submitted
SubmitStep ==
    /\ pc = "ready" /\ mode \in {"build", "full", "status", "task"}
    /\ step < Len(plan)
    /\ step' = StepAfter(step)
    /\ Call_get_completion(StepPrompt(step'))
    /\ shown' = IF mode = "full"
                THEN <<Slice(plan[step'], StepLineChars)>>
                ELSE <<>>
    /\ UNCHANGED <<mode, plan, reply, banner, reported, reads, typed>>

\* a build that prints a phase's success line, and the banner, only when
\* the text returned is not an error text
StepReturns_ChecksResult ==
    /\ pc = "waiting" /\ mode # "interactive"
    /\ Complete
    /\ \E r \in Replies :
          /\ reply' = r
          /\ shown' = CASE mode = "full" -> Append(shown, Slice(r, CompletionLineChars))
                        [] mode \in {"status", "task"} -> <<r>>
                        [] mode = "build" /\ r.id # "Error: " ->
                             <<SuccessLines(driver)[step]>>
                        [] OTHER -> shown
          /\ banner' = (mode = "build" /\ step = Len(plan) /\ r.id # "Error: ")
    /\ pc' = IF step = Len(plan) THEN "done" ELSE "ready"
    /\ UNCHANGED <<mode, plan, step, sent, reported, reads, typed>>

\* get_completion returns: the lines after it are printed (in automated_build
\* the phase's success line, whatever was returned), and the driver goes on
\* to the next step or, after the last, to the end of main()
StepReturns ==
    /\ pc = "waiting" /\ mode # "interactive"
    /\ Complete
    /\ \E r \in Replies :
          /\ reply' = r
          /\ shown' = CASE mode = "full" -> Append(shown, Slice(r, CompletionLineChars))
                        [] mode \in {"status", "task"} -> <<r>>
                        [] mode = "build" -> <<SuccessLines(driver)[step]>>
                        [] OTHER -> shown
    /\ banner' = (mode = "build" /\ step = Len(plan))
    /\ pc' = IF step = Len(plan) THEN "done" ELSE "ready"
    /\ UNCHANGED <<mode, plan, step, sent, reported, reads, typed>>

\* a driver that goes on with the next step when get_completion raises
StepRaises_Swallowed ==
    /\ pc = "waiting"
    /\ Fail
    /\ pc' = "ready"
    /\ UNCHANGED <<mode, plan, step, sent, reply, shown, banner, reported, reads, typed>>

\* get_completion raises: the exception leaves main(); start_building*.py
\* print "Error: <e>" (start_building.py then exits with status 1),
\* run_agency.py has no handler and ends with the traceback
StepRaises ==
    /\ pc = "waiting"
    /\ Fail
    /\ reported' = IF driver = "run_agency" THEN "traceback" ELSE "Error: e"
    /\ pc' = CASE driver = "start_building" -> "exited"
               [] driver = "start_building_nodejs" -> "done"
               [] OTHER -> "crashed"
    /\ UNCHANGED <<mode, plan, step, sent, reply, shown, banner, reads, typed>>

\* one turn of the interactive loop: a line is read and stripped; exit or
\* quit ends the loop, start_building.py skips an empty command, anything
\* else is submitted
ReadCommand ==
    /\ pc = "ready" /\ mode = "interactive" /\ reads < MaxCommands
    /\ \E raw \in RawCommands :
          LET cmd == Strip(raw)
          IN  /\ typed' = raw
              /\ reads' = reads + 1
              /\ IF IsExit(cmd)
                 THEN /\ pc' = "done"
                      /\ shown' = IF driver = "start_building"
                                  THEN <<TextOf("Goodbye!", 8)>>
                                  ELSE shown
                      /\ UNCHANGED <<sent, agencyVars>>
                 ELSE IF SkipsEmpty(driver) /\ cmd = <<>>
                 THEN UNCHANGED <<pc, shown, sent, agencyVars>>
                 ELSE /\ Call_get_completion(TextOf(cmd, Len(cmd)))
                      /\ shown' = <<>>
    /\ UNCHANGED <<mode, plan, step, reply, banner, reported>>

\* get_completion returns in the interactive loop: the response is printed
\* and the loop goes back to input()
CommandReturns ==
    /\ pc = "waiting" /\ mode = "interactive"
    /\ Complete
    /\ \E r \in Replies : reply' = r /\ shown' = <<r>>
    /\ pc' = "ready"
    /\ UNCHANGED <<mode, plan, step, sent, banner, reported, reads, typed>>

RunNext ==
    \/ Main /\ UNCHANGED <<toolVars, agencyVars, driverEnv>>
    \/ SubmitStep /\ UNCHANGED <<toolVars, driverEnv>>
    \/ StepReturns /\ UNCHANGED <<toolVars, driverEnv>>
    \/ StepRaises /\ UNCHANGED <<toolVars, driverEnv>>
    \/ ReadCommand /\ UNCHANGED <<toolVars, driverEnv>>
    \/ CommandReturns /\ UNCHANGED <<toolVars, driverEnv>>
    \/ BeginReasoning /\ UNCHANGED <<toolVars, driverVars, runVars>>
    \/ Delegate /\ UNCHANGED <<toolVars, driverVars, runVars>>
    \/ Invoke /\ UNCHANGED <<toolVars, driverVars, runVars>>
    \/ Return /\ UNCHANGED <<toolVars, driverVars, runVars>>

RunSpec == RunInit /\ [][RunNext]_vars

-----------------------------------------------------------------------------
(* Claims about the drivers' modes                                         *)

\* the steps the source lists for the build of a driver
Listed(d) ==
    CASE d = "run_agency" -> FullBuildTasks
      [] d = "start_building" -> PyBuildPrompts
      [] OTHER -> NodeBuildPrompts

\* C12: a driver has at most one Task Request outstanding: get_completion
\* blocks, so a request is submitted only when every request submitted
\* before has returned, and in automated_build and in the full autonomous
\* build the steps submitted are the listed ones, in their listed order,
\* each at most once.
C12_OneRequestAtATime ==
    /\ [] ( /\ Len(sent) = Len(outcomes) + (IF stack = <<>> THEN 0 ELSE 1)
            /\ mode \in {"build", "full"} =>
                  /\ Len(sent) <= Len(Listed(driver))
                  /\ \A k \in DOMAIN sent : sent[k] = Listed(driver)[k] )
    /\ [][ Len(sent') # Len(sent) =>
              /\ Len(sent') = Len(sent) + 1
              /\ stack = <<>>
              /\ Len(outcomes) = Len(sent)
              /\ \A k \in DOMAIN outcomes : outcomes[k].state = "Completed"
         ]_vars

\* the ninth and last task of the full autonomous build is outstanding, the
\* eight before it have returned
C12_Witness ==
    /\ driver = "run_agency" /\ mode = "full"
    /\ Len(sent) = 9 /\ Len(outcomes) = 8 /\ stack # <<>>

\* C13: in automated_build, when get_completion raises for phase k the
\* request has Failed and is the last one submitted: no later phase is
\* submitted, the BUILD COMPLETE banner is not printed, and the driver has
\* printed the error text.
C13_FailureEndsBuild ==
    ( mode = "build" /\ \E k \in DOMAIN outcomes : outcomes[k].state = "Failed" ) =>
        /\ \A k \in DOMAIN outcomes : outcomes[k].state = "Failed" <=> k = Len(outcomes)
        /\ Len(sent) = Len(outcomes)
        /\ stack = <<>>
        /\ step = Len(sent)
        /\ ~banner
        /\ reported = "Error: e"
        /\ pc \in {"exited", "done"}

\* the third phase of start_building_nodejs's automated_build has failed
C13_Witness ==
    /\ driver = "start_building_nodejs" /\ mode = "build"
    /\ Len(outcomes) = 3 /\ outcomes[3].state = "Failed"
    /\ outcomes[2].state = "Completed"
    /\ reported = "Error: e" /\ ~banner

\* C17: in the full autonomous build every prompt submitted is the complete
\* task text and the result is held complete; only the step line (the first
\* 80 characters of the task) and the completion line (the first 200
\* characters of the result) are cut.
C17_TruncationForDisplayOnly ==
    mode = "full" =>
        /\ \A k \in DOMAIN sent : sent[k] = FullBuildTasks[k]
        /\ step > 0 =>
              /\ shown[1].id = FullBuildTasks[step].id
              /\ shown[1].len = IF FullBuildTasks[step].len < 80
                                THEN FullBuildTasks[step].len ELSE 80
        /\ Len(shown) = 2 =>
              /\ reply \in Replies
              /\ shown[2].id = reply.id
              /\ shown[2].len = IF reply.len < 200 THEN reply.len ELSE 200
        /\ Len(shown) <= 2

\* the first task, of 191 characters, was submitted whole and shown cut, and
\* its result of 250 characters is held whole and shown cut
C17_Witness ==
    /\ mode = "full" /\ step = 1 /\ Len(shown) = 2
    /\ sent[1].len = 191 /\ shown[1].len = 80
    /\ reply.len = 250 /\ shown[2].len = 200

\* C20: in start_building's interactive_mode a whitespace-only command is
\* not submitted and the loop goes on; exit or quit, in any letter case,
\* ends the loop with nothing submitted; any other command is submitted
\* once, stripped; nothing is submitted but a command just read, and when
\* a command is read the result of the one submitted before is printed.
C20_InteractiveLoop ==
    [][ ( driver = "start_building" /\ mode = "interactive" ) =>
          /\ reads' # reads =>
                /\ reads' = reads + 1
                /\ pc = "ready" /\ stack = <<>>
                /\ Len(outcomes) = Len(sent)
                /\ sent # <<>> => shown = <<reply>>
                /\ LET c == Strip(typed')
                   IN  IF Lower(c) \in {<<"e", "x", "i", "t">>, <<"q", "u", "i", "t">>}
                       THEN sent' = sent /\ pc' = "done"
                       ELSE IF \A i \in DOMAIN typed' : typed'[i] \in Whitespace
                       THEN sent' = sent /\ pc' = "ready"
                       ELSE /\ sent' = Append(sent, TextOf(c, Len(c)))
                            /\ pc' = "waiting"
          /\ reads' = reads => sent' = sent
      ]_vars

\* after a command was submitted and answered, a blank line was read and
\* the loop is back at input() with nothing more submitted
C20_Witness ==
    /\ driver = "start_building" /\ mode = "interactive"
    /\ reads = 2 /\ typed = <<" ">> /\ pc = "ready"
    /\ sent = <<TextOf(<<"l", "s">>, 2)>> /\ Len(outcomes) = 1

\* the phases of automated_build whose get_completion has returned
Returned(k) == k <= Len(outcomes) /\ outcomes[k].state = "Completed"

\* C21: in automated_build the BUILD COMPLETE banner is printed exactly
\* when all seven phases have returned, and the success line of the phase
\* at hand is printed exactly when its get_completion has returned,
\* whatever text it returned.
C21_BannerIffAllPhasesReturned ==
    mode = "build" =>
        /\ banner <=> \A k \in 1..7 : Returned(k)
        /\ step = 0 => shown = <<>>
        /\ step > 0 =>
              IF Returned(step)
              THEN /\ shown = <<(IF driver = "start_building"
                                 THEN PySuccessLines ELSE NodeSuccessLines)[step]>>
                   /\ reply \in Replies
              ELSE shown = <<>>
        /\ step <= 7 /\ \A k \in 1..(step - 1) : Returned(k)

\* the seventh phase of start_building's build returned an error text: its
\* success line and the banner are printed all the same
C21_Witness ==
    /\ driver = "start_building" /\ mode = "build" /\ step = 7
    /\ banner /\ reply.id = "Error: "
    /\ shown = <<PySuccessLines[7]>>

\* C22: a menu choice that, stripped, is none of 1, 2, 3, 4 makes no driver
\* submit a Task Request or start an interface: start_building and
\* start_building_nodejs return from main(), run_agency exits with status 1.
C22_InvalidChoiceDoesNothing ==
    /\ [][ ( /\ pc = "menu" /\ pc' # "menu"
             /\ Strip(typed') \notin {<<"1">>, <<"2">>, <<"3">>, <<"4">>} ) =>
              /\ mode' = "invalid"
              /\ sent' = <<>> /\ stack' = <<>>
              /\ pc' = IF driver = "run_agency" THEN "exited" ELSE "done"
         ]_vars
    /\ [] ( mode = "invalid" =>
              /\ sent = <<>> /\ stack = <<>> /\ outcomes = <<>>
              /\ pc = IF driver = "run_agency" THEN "exited" ELSE "done" )

\* run_agency was given " x " at its menu and has exited with status 1
C22_Witness ==
    /\ driver = "run_agency" /\ typed = <<" ", "x", " ">>
    /\ mode = "invalid" /\ pc = "exited" /\ sent = <<>>

=============================================================================
